---- MODULE Spec2Model ----
(***************************************************************************)
(* A model of fosim_tools: trace files (typed tabular datasets), the       *)
(* Range / Area / InSet filters, the cache-bearing Total statistics with   *)
(* MeanSpeed on top of them, and the Table of statistics.                  *)
(*                                                                         *)
(* Objects live on heaps that are sequences: the identity of an object is  *)
(* its index, so two TraceFile objects with equal datasets stay distinct   *)
(* (Python's `is`).                                                        *)
(*                                                                         *)
(* Floating point numbers are modelled by a binary floating point format   *)
(* scaled down from IEEE-754 double precision: a significand of Precision  *)
(* bits (53 in a double), round-to-nearest-even, the unit 1 as the         *)
(* smallest positive number and no upper limit on the exponent.  A finite  *)
(* float is the integer it denotes.                                        *)
(***************************************************************************)
EXTENDS Integers, Sequences, FiniteSets, TLC

VARIABLES
    files,     \* heap of TraceFile objects: files[i] is the _data_frame of object i
    filt,      \* the most recently constructed Filter object (NoFilter before any)
    tts,       \* the TotalTimeSpent instance: its _value and _trace_file
    tdt,       \* the TotalDistanceTraveled instance: its _value and _trace_file
    table,     \* the most recently constructed Table object (NoTable before any)
    prev,      \* history: per Total instance, its most recent successful get_si call
    last       \* the outcome of the last operation: what it returned or raised

vars == <<files, filt, tts, tdt, table, prev, last>>

----------------------------------------------------------------------------
(* Bounds of the model *)

\* significand bits of the modelled floating point format
Precision == 3
\* rows of a dataset drawn as input
MaxRows == 3
\* TraceFile objects on the heap
MaxTraceFiles == 3

----------------------------------------------------------------------------
(* Floating point arithmetic *)

RECURSIVE Pow2(_)
Pow2(n) == IF n = 0 THEN 1 ELSE 2 * Pow2(n - 1)

Abs(x) == IF x < 0 THEN -x ELSE x

Sign(x) == IF x < 0 THEN -1 ELSE 1

\* the exponent of the quantum at magnitude n/d: the least e >= 0 with
\* n/d < 2^(Precision + e)
RECURSIVE QuantumExp(_, _, _)
QuantumExp(n, d, e) ==
    IF n < Pow2(Precision + e) * d THEN e ELSE QuantumExp(n, d, e + 1)

\* n/d (n >= 0, d > 0) rounded to the nearest float, ties to the even significand
RoundMagnitude(n, d) ==
    LET e == QuantumExp(n, d, 0)
        q == Pow2(e) * d
        k == n \div q
        r == n % q
        up == \/ 2 * r > q
              \/ 2 * r = q /\ k % 2 = 1
    IN  (IF up THEN k + 1 ELSE k) * Pow2(e)

\* the rational n/d (d > 0) rounded to a float
RoundRat(n, d) == Sign(n) * RoundMagnitude(Abs(n), d)

FAdd(a, b) == RoundRat(a + b, 1)
FSub(a, b) == RoundRat(a - b, 1)
FMul(a, b) == RoundRat(a * b, 1)
\* a / b for b # 0
FDiv(a, b) == RoundRat(a * Sign(b), Abs(b))

\* the floats: the integers that rounding leaves alone
IsFloat(x) == RoundRat(x, 1) = x

----------------------------------------------------------------------------
(* Datasets: a DataFrame is its set of column names and its rows in order; *)
(* a row maps each column name to its cell.                                *)

DataFrame(cols, rows) == [cols |-> cols, rows |-> rows]

\* all sequences over S of length at most n
SeqUpTo(S, n) == UNION {[1..k -> S] : k \in 0..n}

\* rows[i] for the i with mask[i], in order (data_frame[mask])
RECURSIVE BoolIndex(_, _)
BoolIndex(rows, mask) ==
    IF rows = <<>> THEN <<>>
    ELSE LET rest == BoolIndex(Tail(rows), Tail(mask))
         IN  IF Head(mask) THEN <<Head(rows)>> \o rest ELSE rest

Ok(obj) == [status |-> "ok", obj |-> obj]
Raise(error) == [status |-> error, obj |-> [cls |-> "None"]]

----------------------------------------------------------------------------
(* filter.py *)

NoFilter == [cls |-> "None"]

\* the variant of Range.__init__ that also rejects an empty-width range
RangeInitStrict(column, minimum, maximum, min_inclusive, max_inclusive) ==
    IF minimum >= maximum
    THEN Raise("ValueError")
    ELSE Ok([cls |-> "Range", column |-> column, min |-> minimum, max |-> maximum,
             min_inclusive |-> min_inclusive, max_inclusive |-> max_inclusive])

RangeInit(column, minimum, maximum, min_inclusive, max_inclusive) ==
    IF minimum > maximum
    THEN Raise("ValueError")
    ELSE Ok([cls |-> "Range", column |-> column, min |-> minimum, max |-> maximum,
             min_inclusive |-> min_inclusive, max_inclusive |-> max_inclusive])

\* Range(column, minimum, maximum) with the default inclusivities
RangeInitDefault(column, minimum, maximum) ==
    RangeInit(column, minimum, maximum, TRUE, FALSE)

\* the variant of MinBool that ignores min_inclusive
MinBoolExclusive(self, rows) ==
    [i \in 1..Len(rows) |-> rows[i][self.column] > self.min]

MinBool(self, rows) ==
    IF self.min_inclusive
    THEN [i \in 1..Len(rows) |-> rows[i][self.column] >= self.min]
    ELSE [i \in 1..Len(rows) |-> rows[i][self.column] > self.min]

MaxBool(self, rows) ==
    IF self.max_inclusive
    THEN [i \in 1..Len(rows) |-> rows[i][self.column] <= self.max]
    ELSE [i \in 1..Len(rows) |-> rows[i][self.column] < self.max]

RangeApply(self, df) ==
    IF self.column \notin df.cols
    THEN Raise("KeyError")
    ELSE LET min_bool == MinBool(self, df.rows)
             max_bool == MaxBool(self, df.rows)
             both == [i \in 1..Len(df.rows) |-> min_bool[i] /\ max_bool[i]]
         IN  Ok(DataFrame(df.cols, BoolIndex(df.rows, both)))

\* the variant of AreaInit that builds no Range filters, so validates nothing
AreaInitUnchecked(min_t, max_t, min_pos, max_pos) ==
    Ok([cls |-> "Area",
        area |-> FMul(FSub(max_t, min_t), FSub(max_pos, min_pos)),
        t_filter |-> [cls |-> "Range", column |-> "t (s)", min |-> min_t,
                      max |-> max_t, min_inclusive |-> TRUE, max_inclusive |-> TRUE],
        pos_filter |-> [cls |-> "Range", column |-> "pos (m)", min |-> min_pos,
                        max |-> max_pos, min_inclusive |-> TRUE, max_inclusive |-> TRUE]])

AreaInit(min_t, max_t, min_pos, max_pos) ==
    LET area == FMul(FSub(max_t, min_t), FSub(max_pos, min_pos))
        t_filter == RangeInit("t (s)", min_t, max_t, TRUE, TRUE)
        pos_filter == RangeInit("pos (m)", min_pos, max_pos, TRUE, TRUE)
    IN  IF t_filter.status # "ok" THEN t_filter
        ELSE IF pos_filter.status # "ok" THEN pos_filter
        ELSE Ok([cls |-> "Area", area |-> area,
                 t_filter |-> t_filter.obj, pos_filter |-> pos_filter.obj])

get_area(self) == self.area

AreaApply(self, df) ==
    LET by_t == RangeApply(self.t_filter, df)
    IN  IF by_t.status # "ok" THEN by_t ELSE RangeApply(self.pos_filter, by_t.obj)

InSetInit(column, values) == Ok([cls |-> "InSet", column |-> column, values |-> values])

\* the variant of isin that keeps the rows outside the set
NotIsin(rows, column, values) ==
    [i \in 1..Len(rows) |-> rows[i][column] \notin values]

isin(rows, column, values) ==
    [i \in 1..Len(rows) |-> rows[i][column] \in values]

InSetApply(self, df) ==
    IF self.column \notin df.cols
    THEN Raise("KeyError")
    ELSE Ok(DataFrame(df.cols, BoolIndex(df.rows, isin(df.rows, self.column, self.values))))

\* Filter.apply, dispatched on the class of the filter
Apply(self, df) ==
    CASE self.cls = "Range" -> RangeApply(self, df)
      [] self.cls = "Area" -> AreaApply(self, df)
      [] self.cls = "InSet" -> InSetApply(self, df)

----------------------------------------------------------------------------
(* trace_file.py: the converters and the constructor's parse *)

\* what float() and int() make of the cells of the modelled files; every other
\* cell (the empty one included) does not parse
Numeral == [c \in {"0", "1", "2", "8", "9"} |->
              CASE c = "0" -> 0 [] c = "1" -> 1 [] c = "2" -> 2
                [] c = "8" -> 8 [] c = "9" -> 9]

Parses(value) == value \in DOMAIN Numeral

\* a converted cell: nan marks the float NaN, v is the number otherwise
Cell(v) == [nan |-> FALSE, v |-> v]
NaNCell == [nan |-> TRUE, v |-> 0]

float_converter(value) ==
    IF Parses(value) THEN Cell(RoundRat(Numeral[value], 1)) ELSE NaNCell

int_converter(value) ==
    IF Parses(value) THEN Cell(Numeral[value]) ELSE Cell(-1)

FloatColumns == {"t (s)", "from a", "to a", "pos (m)", "v (m/s)", "tt (s)", "dt (s)"}
IntColumns == {"fromln", "tolane", "id", "lane"}

converters(column, value) ==
    IF column \in FloatColumns THEN float_converter(value)
    ELSE int_converter(value)

\* DataFrame.dropna: the rows without a missing cell
dropna(cols, rows) ==
    LET keep == [i \in 1..Len(rows) |-> \A c \in cols : ~rows[i][c].nan]
    IN  BoolIndex(rows, keep)

\* pd.read_csv with the converters, then dropna(inplace=True)
read_csv(raw) ==
    LET converted == [i \in 1..Len(raw.rows) |->
                        [c \in raw.cols |-> converters(c, raw.rows[i][c])]]
        kept == dropna(raw.cols, converted)
    IN  DataFrame(raw.cols, [i \in 1..Len(kept) |-> [c \in raw.cols |-> kept[i][c].v]])

----------------------------------------------------------------------------
(* statistic.py *)

\* Python values returned by the statistics: ty is the Python type and
\* kind tells a finite number (v) from the IEEE special values
None == [ty |-> "NoneType", kind |-> "none", v |-> 0]
PyFloat(v) == [ty |-> "float", kind |-> "finite", v |-> v]
NpFloat(v) == [ty |-> "float64", kind |-> "finite", v |-> v]
NpSpecial(kind) == [ty |-> "float64", kind |-> kind, v |-> 0]

\* a Total instance after __init__
NewTotal == [value |-> None, trace_file |-> 0]

\* _check_column: the column is in the data frame
check_column(column, df) == column \in df.cols

\* Series.unique(): the distinct values in order of first appearance
RECURSIVE UniqueFrom(_, _, _)
UniqueFrom(rows, column, seen) ==
    IF rows = <<>> THEN seen
    ELSE LET x == Head(rows)[column]
         IN  UniqueFrom(Tail(rows), column,
                        IF \E i \in 1..Len(seen) : seen[i] = x
                        THEN seen ELSE Append(seen, x))

unique(rows, column) == UniqueFrom(rows, column, <<>>)

ColumnValues(rows, column) == {rows[i][column] : i \in 1..Len(rows)}
SeriesMax(rows, column) ==
    CHOOSE m \in ColumnValues(rows, column) : \A x \in ColumnValues(rows, column) : x <= m
SeriesMin(rows, column) ==
    CHOOSE m \in ColumnValues(rows, column) : \A x \in ColumnValues(rows, column) : m <= x

\* the variant of the loop body that forgets to subtract the minimum
AddIdMaxOnly(value, id_data, column) ==
    NpFloat(FAdd(value.v, SeriesMax(id_data, column)))

\* the loop body: value = value + id_data[column].max() - id_data[column].min();
\* the maximum is a numpy float64, and so is the sum from then on
AddId(value, id_data, column) ==
    NpFloat(FSub(FAdd(value.v, SeriesMax(id_data, column)), SeriesMin(id_data, column)))

RECURSIVE SumOverIds(_, _, _, _)
SumOverIds(ids, rows, column, value) ==
    IF ids = <<>> THEN value
    ELSE LET vehicle_id == Head(ids)
             id_data == SelectSeq(rows, LAMBDA r : r["id"] = vehicle_id)
         IN  SumOverIds(Tail(ids), rows, column, AddId(value, id_data, column))

\* the scan of Total.get_si: starts from the Python float 0.0
Scan(df, column) == SumOverIds(unique(df.rows, "id"), df.rows, column, PyFloat(0))

\* the variant of the cache test that only looks whether a value is cached
IsNotWhenEmpty(trace_file, cached, heap) == cached = 0

\* the variant of the cache test that compares the datasets, not the objects
IsNotByValue(trace_file, cached, heap) ==
    cached = 0 \/ heap[trace_file] # heap[cached]

\* trace_file is not self._trace_file
IsNot(trace_file, cached, heap) == trace_file # cached

\* Total.get_si: the outcome, the instance afterwards and whether it scanned
Total_get_si(self, column, trace_file, heap) ==
    LET df == heap[trace_file]
    IN  IF ~check_column(column, df) \/ ~check_column("id", df)
        THEN [status |-> "ValueError", value |-> None, self |-> self, scanned |-> FALSE]
        ELSE IF IsNot(trace_file, self.trace_file, heap)
        THEN LET value == Scan(df, column)
             IN  [status |-> "ok", value |-> value,
                  self |-> [value |-> value, trace_file |-> trace_file],
                  scanned |-> TRUE]
        ELSE [status |-> "ok", value |-> self.value, self |-> self, scanned |-> FALSE]

\* Python's and numpy's true division of two finite floats
TrueDiv(a, b) ==
    IF b.v # 0
    THEN Ok(IF a.ty = "float" /\ b.ty = "float"
            THEN PyFloat(FDiv(a.v, b.v)) ELSE NpFloat(FDiv(a.v, b.v)))
    ELSE IF a.ty = "float" /\ b.ty = "float"
    THEN [status |-> "ZeroDivisionError", obj |-> None]
    ELSE Ok(NpSpecial(IF a.v = 0 THEN "nan" ELSE IF a.v > 0 THEN "inf" ELSE "-inf"))

\* one Total.get_si call as the probe records it
Call(stat, trace_file, r) ==
    [stat |-> stat, trace_file |-> trace_file, status |-> r.status,
     value |-> r.value, scanned |-> r.scanned]

\* MeanSpeed.get_si: the distance is evaluated first, then the time, then the
\* quotient; an error of either ends the call
MeanSpeed_get_si(time, distance, trace_file, heap) ==
    LET d == Total_get_si(distance, "pos (m)", trace_file, heap)
        t == Total_get_si(time, "t (s)", trace_file, heap)
        dcall == Call("TotalDistanceTraveled", trace_file, d)
        tcall == Call("TotalTimeSpent", trace_file, t)
    IN  IF d.status # "ok"
        THEN [status |-> d.status, value |-> None, tts |-> time, tdt |-> distance,
              calls |-> <<dcall>>]
        ELSE IF t.status # "ok"
        THEN [status |-> t.status, value |-> None, tts |-> time, tdt |-> d.self,
              calls |-> <<dcall, tcall>>]
        ELSE LET q == TrueDiv(d.value, t.value)
             IN  [status |-> q.status, value |-> q.obj, tts |-> t.self, tdt |-> d.self,
                  calls |-> <<dcall, tcall>>]

\* PerArea.get_si of a statistic over a Total instance:
\* self._statistic.get_si(trace_file) / self._area.get_area(); an error of the
\* Total ends the call
PerArea_get_si(statistic, name, column, area, trace_file, heap) ==
    LET r == Total_get_si(statistic, column, trace_file, heap)
        calls == <<Call(name, trace_file, r)>>
    IN  IF r.status # "ok"
        THEN [status |-> r.status, value |-> None, self |-> r.self, calls |-> calls]
        ELSE LET q == TrueDiv(r.value, PyFloat(get_area(area)))
             IN  [status |-> q.status, value |-> q.obj, self |-> r.self, calls |-> calls]

\* a float literal of the source, in the float format of the model
Literal(n, d) == PyFloat(RoundRat(n, d))

\* Python's and numpy's product of a float and a finite float: the special
\* values stay what they are under a positive factor
Mul(a, b) ==
    IF a.kind # "finite" THEN a
    ELSE IF a.ty = "float" /\ b.ty = "float"
    THEN PyFloat(FMul(a.v, b.v)) ELSE NpFloat(FMul(a.v, b.v))

\* TotalTimeSpent.get: self.get_si(trace_file) / 3600.0
TotalTimeSpent_get(time, distance, trace_file, heap) ==
    LET r == Total_get_si(time, "t (s)", trace_file, heap)
    IN  [status |-> r.status,
         value |-> IF r.status = "ok" THEN TrueDiv(r.value, Literal(3600, 1)).obj ELSE None,
         tts |-> r.self, tdt |-> distance,
         calls |-> <<Call("TotalTimeSpent", trace_file, r)>>]

\* TotalDistanceTraveled.get: self.get_si(trace_file) / 1000.0
TotalDistanceTraveled_get(time, distance, trace_file, heap) ==
    LET r == Total_get_si(distance, "pos (m)", trace_file, heap)
    IN  [status |-> r.status,
         value |-> IF r.status = "ok" THEN TrueDiv(r.value, Literal(1000, 1)).obj ELSE None,
         tts |-> time, tdt |-> r.self,
         calls |-> <<Call("TotalDistanceTraveled", trace_file, r)>>]

\* MeanSpeed.get: self.get_si(trace_file) * 3.6
MeanSpeed_get(time, distance, trace_file, heap) ==
    LET r == MeanSpeed_get_si(time, distance, trace_file, heap)
    IN  [r EXCEPT !.value = IF r.status = "ok" THEN Mul(r.value, Literal(36, 10)) ELSE None]

\* statistic.get(trace_file), by the class of the statistic
get(statistic, time, distance, trace_file, heap) ==
    CASE statistic = "TotalTimeSpent" -> TotalTimeSpent_get(time, distance, trace_file, heap)
      [] statistic = "TotalDistanceTraveled" ->
            TotalDistanceTraveled_get(time, distance, trace_file, heap)
      [] statistic = "MeanSpeed" -> MeanSpeed_get(time, distance, trace_file, heap)

get_label(statistic) ==
    CASE statistic = "TotalTimeSpent" -> "Total time spent"
      [] statistic = "TotalDistanceTraveled" -> "Total distance traveled"
      [] statistic = "MeanSpeed" -> "Mean speed"

get_unit(statistic) ==
    CASE statistic = "TotalTimeSpent" -> "h"
      [] statistic = "TotalDistanceTraveled" -> "km"
      [] statistic = "MeanSpeed" -> "km/h"

----------------------------------------------------------------------------
(* table.py *)

\* the largest int the interpreter keeps one shared object of; every other
\* int is an object of its own unless the interpreter decides otherwise
SmallIntMax == 256

\* a is b for the ints returned by two len() calls: the outcomes the
\* interpreter can give (ints that are not shared are equal objects or not
\* as it decides; CPython makes a new object on each call)
IntIs(a, b) == IF a = b /\ a > SmallIntMax THEN BOOLEAN ELSE {a = b}

\* len(statistics) is not len(trace_files): the outcomes it can have
LenIsNot(statistics, trace_files) ==
    {~is : is \in IntIs(Len(statistics), Len(trace_files))}

\* the arguments of the loop after one more row: the outcome g of get
TableAppend(statistic, acc, g) ==
    [status |-> g.status,
     rows |-> IF g.status = "ok"
              THEN Append(acc.rows, [label |-> get_label(statistic), Value |-> g.value,
                                     Unit |-> get_unit(statistic)])
              ELSE acc.rows,
     tts |-> g.tts, tdt |-> g.tdt, calls |-> acc.calls \o g.calls]

\* one iteration of the loop of Table.__init__ (g ranges over the one outcome
\* of get, which is so evaluated once)
TableRow(statistics, trace_files, i, acc, heap) ==
    CHOOSE out \in
        {TableAppend(statistics[i], acc, g) :
           g \in {get(statistics[i], acc.tts, acc.tdt, trace_files[i], heap)}} : TRUE

\* the iterations lo..hi of the loop, in order: the first half, then, unless
\* a statistic raised, the rest (half ranges over the one outcome of the
\* first half, which is so evaluated once)
RECURSIVE TableLoop(_, _, _, _, _, _)
TableLoop(statistics, trace_files, lo, hi, acc, heap) ==
    IF lo > hi THEN acc
    ELSE IF lo = hi THEN TableRow(statistics, trace_files, lo, acc, heap)
    ELSE LET mid == (lo + hi) \div 2
         IN  CHOOSE out \in
                 {IF half.status # "ok" THEN half
                  ELSE TableLoop(statistics, trace_files, mid + 1, hi, half, heap) :
                    half \in {TableLoop(statistics, trace_files, lo, mid, acc, heap)}} : TRUE

\* Table.__init__, is_not being the outcome of the length test: the outcome,
\* the rows of the data frame, the Total instances afterwards and the get_si
\* calls made
Table_init(statistics, trace_files, is_not, time, distance, heap) ==
    IF is_not
    THEN [status |-> "ValueError", rows |-> <<>>, tts |-> time, tdt |-> distance,
          calls |-> <<>>]
    ELSE TableLoop(statistics, trace_files, 1, Len(statistics),
                   [status |-> "ok", rows |-> <<>>, tts |-> time, tdt |-> distance,
                    calls |-> <<>>],
                   heap)

----------------------------------------------------------------------------
(* The history of the get_si calls *)

\* the history after the calls of one operation: per Total instance, the last
\* of its calls that returned
Record(history, calls) ==
    [s \in DOMAIN history |->
        LET returned == {i \in 1..Len(calls) : calls[i].stat = s /\ calls[i].status = "ok"}
        IN  IF returned = {} THEN history[s]
            ELSE LET c == calls[CHOOSE i \in returned : \A j \in returned : j <= i]
                 IN  [trace_file |-> c.trace_file, value |-> c.value]]

NoTable == [cls |-> "None"]

NoHistory == [s \in {"TotalTimeSpent", "TotalDistanceTraveled"} |->
                [trace_file |-> 0, value |-> None]]

----------------------------------------------------------------------------
(* The operations *)

\* TraceFile(filename): a new TraceFile object holding the parsed file
TraceFileInit(raw) ==
    /\ files' = Append(files, read_csv(raw))
    /\ last' = [op |-> "TraceFile", raw |-> raw, status |-> "ok", out |-> Len(files) + 1]
    /\ UNCHANGED <<filt, tts, tdt, table, prev>>

\* Range(column, minimum, maximum, min_inclusive, max_inclusive)
NewRange(column, minimum, maximum, min_inclusive, max_inclusive) ==
    LET r == RangeInit(column, minimum, maximum, min_inclusive, max_inclusive)
    IN  /\ filt' = IF r.status = "ok" THEN r.obj ELSE filt
        /\ last' = [op |-> "Range", status |-> r.status, out |-> r.obj,
                    args |-> <<column, minimum, maximum, min_inclusive, max_inclusive>>]
        /\ UNCHANGED <<files, tts, tdt, table, prev>>

\* Area(min_t, max_t, min_pos, max_pos)
NewArea(min_t, max_t, min_pos, max_pos) ==
    LET r == AreaInit(min_t, max_t, min_pos, max_pos)
    IN  /\ filt' = IF r.status = "ok" THEN r.obj ELSE filt
        /\ last' = [op |-> "Area", status |-> r.status, out |-> r.obj,
                    args |-> <<min_t, max_t, min_pos, max_pos>>]
        /\ UNCHANGED <<files, tts, tdt, table, prev>>

\* InSet(column, values)
NewInSet(column, values) ==
    LET r == InSetInit(column, values)
    IN  /\ filt' = r.obj
        /\ last' = [op |-> "InSet", status |-> r.status, out |-> r.obj,
                    args |-> <<column, values>>]
        /\ UNCHANGED <<files, tts, tdt, table, prev>>

\* the variant of TraceFile.filter that filters its own data frame in place
\* before wrapping it
FilterInPlace(heap, self, data_frame) ==
    Append([heap EXCEPT ![self] = data_frame], data_frame)

\* the heap after TraceFile.filter: out = TraceFile(''); out._data_frame = ...
FilterHeap(heap, self, data_frame) == Append(heap, data_frame)

\* trace_file.filter(f)
Filter(self, f) ==
    LET r == Apply(f, files[self])
    IN  /\ Len(files) < MaxTraceFiles
        /\ files' = IF r.status = "ok" THEN FilterHeap(files, self, r.obj) ELSE files
        /\ last' = [op |-> "filter", self |-> self, filt |-> f, status |-> r.status,
                    out |-> IF r.status = "ok" THEN Len(files) + 1 ELSE 0]
        /\ UNCHANGED <<filt, tts, tdt, table, prev>>

\* total_time_spent.get_si(trace_file)
TotalTimeSpent_get_si(trace_file) ==
    LET r == Total_get_si(tts, "t (s)", trace_file, files)
        calls == <<Call("TotalTimeSpent", trace_file, r)>>
    IN  /\ tts' = r.self
        /\ prev' = Record(prev, calls)
        /\ last' = [op |-> "TotalTimeSpent.get_si", trace_file |-> trace_file,
                    status |-> r.status, value |-> r.value, calls |-> calls]
        /\ UNCHANGED <<files, filt, tdt, table>>

\* total_distance_traveled.get_si(trace_file)
TotalDistanceTraveled_get_si(trace_file) ==
    LET r == Total_get_si(tdt, "pos (m)", trace_file, files)
        calls == <<Call("TotalDistanceTraveled", trace_file, r)>>
    IN  /\ tdt' = r.self
        /\ prev' = Record(prev, calls)
        /\ last' = [op |-> "TotalDistanceTraveled.get_si", trace_file |-> trace_file,
                    status |-> r.status, value |-> r.value, calls |-> calls]
        /\ UNCHANGED <<files, filt, tts, table>>

\* MeanSpeed(tts, tdt).get_si(trace_file)
MeanSpeedGetSI(trace_file) ==
    LET r == MeanSpeed_get_si(tts, tdt, trace_file, files)
    IN  /\ tts' = r.tts
        /\ tdt' = r.tdt
        /\ prev' = Record(prev, r.calls)
        /\ last' = [op |-> "MeanSpeed.get_si", trace_file |-> trace_file,
                    status |-> r.status, value |-> r.value, calls |-> r.calls]
        /\ UNCHANGED <<files, filt, table>>

\* Density(tts, area).get_si(trace_file)
Density_get_si(area, trace_file) ==
    LET r == PerArea_get_si(tts, "TotalTimeSpent", "t (s)", area, trace_file, files)
    IN  /\ tts' = r.self
        /\ prev' = Record(prev, r.calls)
        /\ last' = [op |-> "Density.get_si", trace_file |-> trace_file,
                    status |-> r.status, value |-> r.value, calls |-> r.calls]
        /\ UNCHANGED <<files, filt, tdt, table>>

\* Flow(tdt, area).get_si(trace_file)
Flow_get_si(area, trace_file) ==
    LET r == PerArea_get_si(tdt, "TotalDistanceTraveled", "pos (m)", area, trace_file, files)
    IN  /\ tdt' = r.self
        /\ prev' = Record(prev, r.calls)
        /\ last' = [op |-> "Flow.get_si", trace_file |-> trace_file,
                    status |-> r.status, value |-> r.value, calls |-> r.calls]
        /\ UNCHANGED <<files, filt, tts, table>>

\* Table(statistics, trace_files), the statistics sharing the two Total instances
TableInit(statistics, trace_files) ==
    \E r \in {Table_init(statistics, trace_files, is_not, tts, tdt, files) :
                 is_not \in LenIsNot(statistics, trace_files)} :
        /\ table' = IF r.status = "ok" THEN [cls |-> "Table", data_frame |-> r.rows]
                     ELSE table
        /\ tts' = r.tts
        /\ tdt' = r.tdt
        /\ prev' = Record(prev, r.calls)
        /\ last' = [op |-> "Table", statistics |-> statistics, trace_files |-> trace_files,
                    status |-> r.status, calls |-> r.calls]
        /\ UNCHANGED <<files, filt>>

----------------------------------------------------------------------------
(* Inputs *)

\* the numbers of the modelled inputs: 0 and 1 are exact in every format, 8 is
\* the least float whose successor is not 9 at Precision 3
Row3(t, pos, type) == ("t (s)" :> t) @@ ("pos (m)" :> pos) @@ ("type" :> type)
RowV(id, t, pos) == ("id" :> id) @@ ("t (s)" :> t) @@ ("pos (m)" :> pos)

Idle == [op |-> "none"]

----------------------------------------------------------------------------
(* The filters on trace files *)

\* rows of the datasets the filters are applied to
MaxFilterRows == 3

\* a row at time 0, 1 and 8, of vehicle type '1', '3' and '2'
FilterRows == {Row3(0, 8, "1"), Row3(1, 8, "3"), Row3(8, 8, "2")}

FilterDatasets ==
    {DataFrame({"t (s)", "pos (m)", "type"}, rows) : rows \in SeqUpTo(FilterRows, MaxFilterRows)}

\* the bounds of the modelled Range filters: with cells 0, 1 and 8, the window
\* <<0, 8>> has a row at each bound and one between them, <<1, 1>> has a row
\* below it, one above it and one at both bounds
Windows == {<<0, 8>>, <<1, 1>>}

\* the filter objects the constructors return for the modelled arguments
Ranges ==
    {RangeInit("t (s)", w[1], w[2], mi, ma).obj :
       w \in Windows, mi \in BOOLEAN, ma \in BOOLEAN}
Areas ==
    {AreaInit(t[1], t[2], 0, 8).obj : t \in Windows}
InSets ==
    {InSetInit(c, v).obj : c \in {"type", "dest"}, v \in {{"1"}, {"1", "2"}}}

Init ==
    /\ files \in {<<df>> : df \in FilterDatasets}
    /\ filt = NoFilter
    /\ tts = NewTotal
    /\ tdt = NewTotal
    /\ table = NoTable
    /\ prev = NoHistory
    /\ last = Idle

FilterRange == \E self \in 1..Len(files), f \in Ranges : Filter(self, f)
FilterArea == \E self \in 1..Len(files), f \in Areas : Filter(self, f)
FilterInSet == \E self \in 1..Len(files), f \in InSets : Filter(self, f)

Next == FilterRange \/ FilterArea \/ FilterInSet

Spec == Init /\ [][Next]_vars

\* a filter call has just returned a new TraceFile
Filtered(cls) ==
    /\ last.op = "filter"
    /\ last.status = "ok"
    /\ last.filt.cls = cls

\* v is within the bounds of the Range f, each bound taken as f configures it
Within(f, v) ==
    /\ IF f.min_inclusive THEN v >= f.min ELSE v > f.min
    /\ IF f.max_inclusive THEN v <= f.max ELSE v < f.max

\* C3: Range.apply retains exactly the rows whose column value satisfies the
\* lower bound (>= if min_inclusive, else >) and the upper bound (<= if
\* max_inclusive, else <): the rows of the result are the rows of the input
\* that are within the bounds, in order; a Range built with the defaults has an
\* inclusive lower and an exclusive upper bound.
RangeRetainsExactly ==
    /\ Filtered("Range") =>
         LET f == last.filt
         IN  files[last.out].rows =
               SelectSeq(files[last.self].rows, LAMBDA r : Within(f, r[f.column]))
    /\ \A w \in Windows :
         LET d == RangeInitDefault("t (s)", w[1], w[2]).obj
         IN  d.min_inclusive /\ ~d.max_inclusive

\* a Range with an inclusive lower and an exclusive upper bound has kept a row
\* at its lower bound and removed a row at its upper bound
RangeWitness ==
    /\ Filtered("Range")
    /\ last.filt.min_inclusive /\ ~last.filt.max_inclusive
    /\ last.filt.min < last.filt.max
    /\ \E i \in 1..Len(files[last.out].rows) :
         files[last.out].rows[i]["t (s)"] = last.filt.min
    /\ \E i \in 1..Len(files[last.self].rows) :
         files[last.self].rows[i]["t (s)"] = last.filt.max
    /\ \E i \in 1..Len(files[last.self].rows) :
         files[last.self].rows[i]["t (s)"] \notin {last.filt.min, last.filt.max}

\* C5: TraceFile.filter is non-mutating: no step changes the data frame of a
\* TraceFile that exists, and a filter call that returns hands out a new
\* TraceFile object, distinct from the one it was called on.
FilterNonMutating ==
    [][/\ Len(files') >= Len(files)
       /\ \A i \in 1..Len(files) : files'[i] = files[i]
       /\ (last'.op = "filter" /\ last'.status = "ok") =>
            /\ Len(files') = Len(files) + 1
            /\ last'.out = Len(files')
            /\ last'.out # last'.self]_vars

\* a TraceFile derived from a derived TraceFile, each with fewer rows than
\* the one it was filtered from
FilterChainWitness ==
    /\ Len(files) = 3
    /\ last.op = "filter" /\ last.status = "ok" /\ last.self = 2 /\ last.out = 3
    /\ Len(files[3].rows) < Len(files[2].rows)
    /\ Len(files[2].rows) < Len(files[1].rows)

\* C10: InSet.apply retains exactly the rows whose column value is a member of
\* values, in their original relative order (the result is the subsequence of
\* the member rows), and applying the filter to its own result changes nothing.
InSetRetainsMembers ==
    Filtered("InSet") =>
      LET f == last.filt
          out == files[last.out]
      IN  /\ out.rows = SelectSeq(files[last.self].rows, LAMBDA r : r[f.column] \in f.values)
          /\ InSetApply(f, out).status = "ok"
          /\ InSetApply(f, out).obj = out

\* an InSet has kept two different rows around one it removed
InSetWitness ==
    /\ Filtered("InSet")
    /\ Len(files[last.self].rows) = 3
    /\ Len(files[last.out].rows) = 2
    /\ files[last.out].rows[1] = files[last.self].rows[1]
    /\ files[last.out].rows[2] = files[last.self].rows[3]
    /\ files[last.out].rows[1] # files[last.out].rows[2]

----------------------------------------------------------------------------
(* The filter constructors *)

InitCtor ==
    /\ files = <<>>
    /\ filt = NoFilter
    /\ tts = NewTotal
    /\ tdt = NewTotal
    /\ table = NoTable
    /\ prev = NoHistory
    /\ last = Idle

ConstructRange ==
    \E minimum \in {0, 1, 8}, maximum \in {0, 1, 8}, mi \in BOOLEAN, ma \in BOOLEAN :
        NewRange("t (s)", minimum, maximum, mi, ma)

ConstructArea ==
    \E min_t \in {0, 1, 8}, max_t \in {0, 1, 8}, min_pos \in {0, 8}, max_pos \in {0, 8} :
        NewArea(min_t, max_t, min_pos, max_pos)

ConstructInSet == \E values \in {{"1"}, {"1", "2"}} : NewInSet("type", values)

NextCtor == ConstructRange \/ ConstructArea \/ ConstructInSet

SpecCtor == InitCtor /\ [][NextCtor]_vars

\* C4: Range(column, minimum, maximum, ...) with minimum > maximum raises the
\* invalid-argument error (ValueError) and yields no filter object; with
\* minimum <= maximum, minimum = maximum included, it returns the Range holding
\* its arguments.
RangeInitValidates ==
    last.op = "Range" =>
      IF last.args[2] > last.args[3]
      THEN last.status = "ValueError" /\ last.out = NoFilter
      ELSE /\ last.status = "ok"
           /\ filt = last.out
           /\ last.out = [cls |-> "Range", column |-> last.args[1],
                          min |-> last.args[2], max |-> last.args[3],
                          min_inclusive |-> last.args[4],
                          max_inclusive |-> last.args[5]]

\* a Range constructor call with minimum > maximum has raised, and the filter
\* constructed before it is still the current one
RangeInitWitness ==
    /\ last.op = "Range"
    /\ last.args[2] > last.args[3]
    /\ last.status = "ValueError"
    /\ filt.cls = "Range" /\ filt.min = filt.max

\* C8 as claimed: Area construction validates nothing: every Area(min_t,
\* max_t, min_pos, max_pos) call, an inverted box included, returns an Area
\* whose get_area() is (max_t - min_t) * (max_pos - min_pos).
AreaInitAcceptsAnyBox ==
    last.op = "Area" =>
      /\ last.status = "ok"
      /\ last.out.cls = "Area"
      /\ get_area(last.out) =
           FMul(FSub(last.args[2], last.args[1]), FSub(last.args[4], last.args[3]))

\* C8 as amended: Area construction validates its box through the two Range
\* filters it builds: with max_t < min_t or max_pos < min_pos it raises the
\* invalid-argument error (ValueError) and yields no Area; otherwise it
\* returns an Area whose get_area() is (max_t - min_t) * (max_pos - min_pos),
\* which is not negative.
AreaInitValidates ==
    last.op = "Area" =>
      IF last.args[2] < last.args[1] \/ last.args[4] < last.args[3]
      THEN last.status = "ValueError" /\ last.out = NoFilter
      ELSE /\ last.status = "ok"
           /\ filt = last.out
           /\ last.out.cls = "Area"
           /\ get_area(last.out) =
                FMul(FSub(last.args[2], last.args[1]), FSub(last.args[4], last.args[3]))
           /\ get_area(last.out) >= 0

\* an Area constructor call with an inverted time window has raised
AreaInitWitness ==
    /\ last.op = "Area"
    /\ last.args[2] < last.args[1]
    /\ last.args[3] <= last.args[4]
    /\ last.status = "ValueError"

----------------------------------------------------------------------------
(* The constructor of TraceFile *)

RawRow(t, id) == ("t (s)" :> t) @@ ("id" :> id)

\* the files read: a time and a vehicle id per row, each cell a numeral or not
RawFiles ==
    {[cols |-> {"t (s)", "id"}, rows |-> rows] :
       rows \in SeqUpTo({RawRow(t, id) : t \in {"1", "9", "x"}, id \in {"1", "x"}}, MaxRows)}

InitLoad ==
    /\ files = <<>>
    /\ filt = NoFilter
    /\ tts = NewTotal
    /\ tdt = NewTotal
    /\ table = NoTable
    /\ prev = NoHistory
    /\ last = Idle

LoadTraceFile == \E raw \in RawFiles : files = <<>> /\ TraceFileInit(raw)

NextLoad == LoadTraceFile

SpecLoad == InitLoad /\ [][NextLoad]_vars

\* the cell of `column` parses as the number its converter wants
CellParses(column, value) == Parses(value)

\* C6: after TraceFile construction every row with an unparsable numeric cell
\* is gone: the dataset holds the converted rows of the file whose numeric
\* cells all parse, so no row holds the NaN of a failed float conversion or
\* the -1 of a failed integer conversion.
UnparsableRowsDropped ==
    last.op = "TraceFile" =>
      LET raw == last.raw
          good == SelectSeq(raw.rows, LAMBDA r : \A c \in raw.cols : CellParses(c, r[c]))
      IN  /\ Len(files[last.out].rows) = Len(good)
          /\ \A i \in 1..Len(files[last.out].rows) :
               \A c \in raw.cols \cap IntColumns : files[last.out].rows[i][c] # -1

----------------------------------------------------------------------------
(* Total.get_si as a function of the dataset *)

\* vehicle samples: vehicle id, time and position per row
TotalDatasets ==
    {DataFrame({"id", "t (s)", "pos (m)"}, rows) :
       rows \in SeqUpTo({RowV(id, x[1], x[2]) :
                            id \in {1, 2}, x \in {<<0, 0>>, <<1, 8>>, <<8, 0>>}},
                        MaxRows)}

InitTotal ==
    /\ files \in {<<df>> : df \in TotalDatasets}
    /\ filt = NoFilter
    /\ tts = NewTotal
    /\ tdt = NewTotal
    /\ table = NoTable
    /\ prev = NoHistory
    /\ last = Idle

GetTotalTimeSpent == \E trace_file \in 1..Len(files) : TotalTimeSpent_get_si(trace_file)

GetTotalDistanceTraveled ==
    \E trace_file \in 1..Len(files) : TotalDistanceTraveled_get_si(trace_file)

NextTotal == GetTotalTimeSpent \/ GetTotalDistanceTraveled

SpecTotal == InitTotal /\ [][NextTotal]_vars

\* the column a Total statistic sums
ColumnOf(stat) == IF stat = "TotalTimeSpent" THEN "t (s)" ELSE "pos (m)"

\* a Total.get_si call has just computed its value from the dataset
Computed ==
    /\ last.op \in {"TotalTimeSpent.get_si", "TotalDistanceTraveled.get_si"}
    /\ last.status = "ok"
    /\ last.calls[1].scanned

Ids(rows) == {rows[i]["id"] : i \in 1..Len(rows)}

\* the width of vehicle id in column: its maximum minus its minimum, exactly
Width(rows, column, id) ==
    LET vs == {rows[i][column] : i \in {j \in 1..Len(rows) : rows[j]["id"] = id}}
    IN  (CHOOSE m \in vs : \A x \in vs : x <= m) - (CHOOSE m \in vs : \A x \in vs : m <= x)

RECURSIVE SumWidths(_, _, _)
SumWidths(rows, column, ids) ==
    IF ids = {} THEN 0
    ELSE LET id == CHOOSE x \in ids : TRUE
         IN  Width(rows, column, id) + SumWidths(rows, column, ids \ {id})

\* the sum over the distinct ids of max - min, in exact arithmetic
ExactSum(rows, column) == SumWidths(rows, column, Ids(rows))

\* the rows in the order perm gives them
Permuted(rows, perm) == [i \in 1..Len(rows) |-> rows[perm[i]]]

\* the distinct ids by the position of their first row
FirstRow(rows, id) == CHOOSE i \in 1..Len(rows) :
                        rows[i]["id"] = id /\ \A j \in 1..(i - 1) : rows[j]["id"] # id
ByFirstRow(rows) ==
    CHOOSE s \in [1..Cardinality(Ids(rows)) -> Ids(rows)] :
      \A i, j \in DOMAIN s : i < j => FirstRow(rows, s[i]) < FirstRow(rows, s[j])

\* the floating point sum, id after id: (sum + max) - min, each step rounded;
\* exact tells whether every step was exact
Accumulated(rows, column) ==
    LET s == ByFirstRow(rows)
        hi(k) == LET vs == {rows[i][column] : i \in {j \in 1..Len(rows) : rows[j]["id"] = s[k]}}
                 IN  CHOOSE m \in vs : \A x \in vs : x <= m
        acc[k \in 0..Len(s)] ==
            IF k = 0 THEN [v |-> 0, exact |-> TRUE]
            ELSE LET lo == hi(k) - Width(rows, column, s[k])
                     up == acc[k - 1].v + hi(k)
                 IN  [v |-> FSub(FAdd(acc[k - 1].v, hi(k)), lo),
                      exact |-> acc[k - 1].exact /\ IsFloat(up)
                                  /\ IsFloat(RoundRat(up, 1) - lo)]
    IN  acc[Len(s)]

\* C2 as claimed: Total.get_si returns the sum over the distinct vehicle ids
\* of (maximum of C minus minimum of C over the id's rows), the same for every
\* permutation of the rows, and 0 for a dataset without rows.
TotalIsSumOfWidths ==
    Computed =>
      LET rows == files[last.trace_file].rows
          column == ColumnOf(last.calls[1].stat)
      IN  /\ last.value.v = ExactSum(rows, column)
          /\ \A perm \in Permutations(1..Len(rows)) :
               Scan(DataFrame(files[last.trace_file].cols, Permuted(rows, perm)), column).v
                 = last.value.v
          /\ rows = <<>> => last.value.v = 0

\* C2 as amended: Total.get_si returns the floating point sum, taken over the
\* distinct vehicle ids in the order of their first rows, of the id's maximum
\* added and its minimum then subtracted; that is the sum of (maximum minus
\* minimum) whenever no step rounds; the result is the same for every
\* permutation of the rows that keeps the ids' order of first appearance; and
\* it is the float 0.0 for a dataset without rows.
TotalIsFloatSumOfWidths ==
    Computed =>
      LET df == files[last.trace_file]
          rows == df.rows
          column == ColumnOf(last.calls[1].stat)
          sum == Accumulated(rows, column)
      IN  /\ last.value.v = sum.v
          /\ last.value.kind = "finite"
          /\ sum.exact => last.value.v = ExactSum(rows, column)
          /\ \A perm \in Permutations(1..Len(rows)) :
               unique(Permuted(rows, perm), "id") = unique(rows, "id") =>
                 Scan(DataFrame(df.cols, Permuted(rows, perm)), column) = last.value
          /\ rows = <<>> => last.value = PyFloat(0)

\* a total over two vehicles whose rows interleave: the rows can be permuted
\* without changing which id comes first, and widths were added up
TotalWitness ==
    /\ Computed
    /\ Len(files[last.trace_file].rows) = 3
    /\ files[last.trace_file].rows[1]["id"] = files[last.trace_file].rows[3]["id"]
    /\ files[last.trace_file].rows[1]["id"] # files[last.trace_file].rows[2]["id"]
    /\ files[last.trace_file].rows[1] # files[last.trace_file].rows[3]
    /\ last.value.v > 0

----------------------------------------------------------------------------
(* The statistics and their caches *)

\* rows of the datasets the statistics are taken of
MaxStatRows == 2

\* vehicle samples, and files that have no 'pos (m)' column
StatDatasets ==
    {DataFrame({"id", "t (s)", "pos (m)"}, rows) :
       rows \in SeqUpTo({RowV(id, t, pos) : id \in {1, 2}, t \in {0, 1}, pos \in {0, 8}},
                        MaxStatRows)}
    \cup
    {DataFrame({"id", "t (s)"}, rows) :
       rows \in SeqUpTo({("id" :> 1) @@ ("t (s)" :> t) : t \in {0, 1}}, MaxStatRows)}

\* the space-time box of the statistics: it holds the rows at position 0
StatAreas == {AreaInit(0, 1, 0, 1).obj}

\* the heap after trace_file = TraceFile(...) and trace_file.filter(area); where
\* the filter raises, after a second TraceFile(...) of the same file instead
TwoTraceFiles(df, area) ==
    LET r == Apply(area, df)
    IN  IF r.status = "ok" THEN FilterHeap(<<df>>, 1, r.obj) ELSE <<df, df>>

InitStat ==
    /\ filt \in StatAreas
    /\ files \in {TwoTraceFiles(df, filt) : df \in StatDatasets}
    /\ tts = NewTotal
    /\ tdt = NewTotal
    /\ table = NoTable
    /\ prev = NoHistory
    /\ last = Idle

GetMeanSpeed == \E trace_file \in 1..Len(files) : MeanSpeedGetSI(trace_file)

NextStat == GetTotalTimeSpent \/ GetTotalDistanceTraveled \/ GetMeanSpeed

SpecStat == InitStat /\ [][NextStat]_vars

StatOps == {"TotalTimeSpent.get_si", "TotalDistanceTraveled.get_si", "MeanSpeed.get_si"}

\* C1: a successful get_si call on a Total instance with the TraceFile object
\* of the instance's preceding successful get_si call does not scan the
\* dataset and returns the value that call returned; a successful call with
\* another TraceFile object scans that TraceFile's dataset, returns the total
\* computed from it and leaves (that TraceFile, that value) in the cache.
CacheHitOrRecompute ==
    [][last'.op \in StatOps =>
         \A k \in 1..Len(last'.calls) :
           LET c == last'.calls[k]
           IN  c.status = "ok" =>
                 IF c.trace_file = prev[c.stat].trace_file
                 THEN ~c.scanned /\ c.value = prev[c.stat].value
                 ELSE /\ c.scanned
                      /\ c.value = Scan(files[c.trace_file], ColumnOf(c.stat))
                      /\ (IF c.stat = "TotalTimeSpent" THEN tts' ELSE tdt') =
                           [value |-> c.value, trace_file |-> c.trace_file]]_vars

\* a call has returned the cached value without a scan, with another
\* TraceFile of equal data on the heap
CacheHitWitness ==
    /\ last.op = "TotalTimeSpent.get_si"
    /\ last.status = "ok"
    /\ ~last.calls[1].scanned
    /\ last.value.v > 0
    /\ \E other \in 1..Len(files) :
         other # last.trace_file /\ files[other] = files[last.trace_file]

\* C7: MeanSpeed.get_si on a TraceFile whose total time spent is zero raises
\* nothing and returns infinity or NaN; on a TraceFile with a nonzero total
\* time it returns the total distance traveled divided by the total time spent.
MeanSpeedNeverRaises ==
    (/\ last.op = "MeanSpeed.get_si"
     /\ {"id", "t (s)", "pos (m)"} \subseteq files[last.trace_file].cols) =>
      LET time == Scan(files[last.trace_file], "t (s)")
          distance == Scan(files[last.trace_file], "pos (m)")
      IN  /\ last.status = "ok"
          /\ IF time.v = 0
             THEN last.value.kind \in {"inf", "-inf", "nan"}
             ELSE last.value.kind = "finite" /\ last.value.v = FDiv(distance.v, time.v)

----------------------------------------------------------------------------
(* Tables of statistics *)

\* one vehicle, seen at time 0 and again 4096 s and 8192 m later; and a file
\* without positions
TableDatasets ==
    {DataFrame({"id", "t (s)", "pos (m)"}, rows) :
       rows \in {<<RowV(1, 0, 0), RowV(1, 4096, 8192)>>}}
    \cup
    {DataFrame({"id", "t (s)"}, <<("id" :> 1) @@ ("t (s)" :> 0),
                                 ("id" :> 1) @@ ("t (s)" :> 4096)>>)}

\* lists as long as the largest shared int and one longer
LongLists(x) == {[i \in 1..n |-> x] : n \in {SmallIntMax, SmallIntMax + 1}}

InitTable ==
    /\ filt \in StatAreas
    /\ files \in {TwoTraceFiles(df, filt) : df \in TableDatasets}
    /\ tts = NewTotal
    /\ tdt = NewTotal
    /\ table = NoTable
    /\ prev = NoHistory
    /\ last = Idle

\* the lists of statistics and of TraceFile objects that tables are made of
TableStatistics ==
    {<<>>, <<"TotalTimeSpent">>, <<"TotalTimeSpent", "TotalDistanceTraveled", "MeanSpeed">>}

TableTraceFiles == {<<>>, <<2>>, <<1, 2, 1>>}

\* the lists of TraceFile objects that are on the heap
OnHeap(lists) == {t \in lists : \A i \in 1..Len(t) : t[i] \in 1..Len(files)}

NewTable ==
    \E trace_files \in OnHeap(TableTraceFiles), statistics \in TableStatistics :
        TableInit(statistics, trace_files)

NewLongTable ==
    \E trace_files \in OnHeap(LongLists(1)), statistics \in LongLists("TotalTimeSpent") :
        TableInit(statistics, trace_files)

NextTable == NewTable \/ NewLongTable

SpecTable == InitTable /\ [][NextTable]_vars

\* statistics[i].get(trace_files[i]) of statistics that were never evaluated
FreshGet(statistic, trace_file) == get(statistic, NewTotal, NewTotal, trace_file, files)

\* C9: a Table of lists of different lengths fails with the invalid-argument
\* error before any statistic is evaluated; a Table of lists of equal length
\* n, each statistic evaluable on its trace file, succeeds and holds n rows,
\* row i being (get_label(), get(trace_files[i]), get_unit()) of statistics[i]
TableRowsPerStatistic ==
    last.op = "Table" =>
        LET statistics == last.statistics
            trace_files == last.trace_files
        IN  /\ Len(statistics) # Len(trace_files) =>
                  last.status = "ValueError" /\ last.calls = <<>>
            /\ ( /\ Len(statistics) = Len(trace_files)
                 /\ \A i \in 1..Len(statistics) :
                       FreshGet(statistics[i], trace_files[i]).status = "ok" ) =>
                  /\ last.status = "ok"
                  /\ table.cls = "Table"
                  /\ Len(table.data_frame) = Len(statistics)
                  /\ \A i \in 1..Len(statistics) :
                        table.data_frame[i] =
                          [label |-> get_label(statistics[i]),
                           Value |-> FreshGet(statistics[i], trace_files[i]).value,
                           Unit |-> get_unit(statistics[i])]

----------------------------------------------------------------------------
(* The Total instances shared by MeanSpeed, Density and Flow *)

\* vehicle samples: two vehicles, seen at time 0 and position 0 or at time 1
\* and position 8
SharedDatasets ==
    {DataFrame({"id", "t (s)", "pos (m)"}, rows) :
       rows \in SeqUpTo({RowV(id, x[1], x[2]) : id \in {1, 2}, x \in {<<0, 0>>, <<1, 8>>}},
                        MaxStatRows)}

\* a lane change file: it has no 'pos (m)' column
LaneChanges ==
    DataFrame({"id", "t (s)", "fromln", "tolane"},
              <<("id" :> 1) @@ ("t (s)" :> 0) @@ ("fromln" :> 1) @@ ("tolane" :> 2),
                ("id" :> 1) @@ ("t (s)" :> 1) @@ ("fromln" :> 2) @@ ("tolane" :> 1)>>)

\* the space-time box of Density and Flow: of area 2, it holds the rows at
\* position 0
SharedAreas == {AreaInit(0, 1, 0, 2).obj}

\* the heap after travel_time = TraceFile(...), travel_time.filter(area) and
\* lane_changes = TraceFile(...)
InitShared ==
    /\ filt \in SharedAreas
    /\ files \in {Append(TwoTraceFiles(df, filt), LaneChanges) : df \in SharedDatasets}
    /\ tts = NewTotal
    /\ tdt = NewTotal
    /\ table = NoTable
    /\ prev = NoHistory
    /\ last = Idle

GetDensity == \E trace_file \in 1..Len(files) : Density_get_si(filt, trace_file)

GetFlow == \E trace_file \in 1..Len(files) : Flow_get_si(filt, trace_file)

NextShared ==
    GetTotalTimeSpent \/ GetTotalDistanceTraveled \/ GetMeanSpeed \/ GetDensity \/ GetFlow

SpecShared == InitShared /\ [][NextShared]_vars

SharedOps == StatOps \cup {"Density.get_si", "Flow.get_si"}

\* the cache of a Total instance is empty, or holds a TraceFile object and the
\* total of its dataset
CacheEmptyOrTotal(self, column) ==
    \/ self.trace_file = 0 /\ self.value = None
    \/ /\ self.trace_file \in 1..Len(files)
       /\ self.value = Scan(files[self.trace_file], column)

CacheValid == CacheEmptyOrTotal(tts, "t (s)") /\ CacheEmptyOrTotal(tdt, "pos (m)")

\* every get_si call of a step on a Total instance returns the total of the
\* TraceFile passed, or raises the missing-column error and leaves the cache
\* of the instance as it was
CallsCoherent ==
    last'.op \in SharedOps =>
      \A k \in 1..Len(last'.calls) :
        LET c == last'.calls[k]
        IN  /\ c.status \in {"ok", "ValueError"}
            /\ c.status = "ok" =>
                  c.value = Scan(files[c.trace_file], ColumnOf(c.stat))
            /\ c.status = "ValueError" =>
                  IF c.stat = "TotalTimeSpent" THEN tts' = tts ELSE tdt' = tdt

\* C11: for every sequence of get_si calls on the shared Total instances, made
\* directly or through MeanSpeed, Density and Flow, with any interleaving of
\* TraceFile objects, every successful call returns the value a fresh
\* computation on the TraceFile passed returns; in every reachable state the
\* cache of an instance is empty (no value, no TraceFile) or holds the total of
\* the cached TraceFile; and a call that raises the missing-column error
\* leaves the cached (TraceFile, value) pair unchanged.
SharedCacheCoherent == []CacheValid /\ [][CallsCoherent]_vars

\* Flow has raised the missing-column error on the lane change file while the
\* shared TotalDistanceTraveled instance holds a positive total of the first
\* TraceFile and the shared TotalTimeSpent instance that of another one
SharedCacheWitness ==
    /\ last.op = "Flow.get_si"
    /\ last.status = "ValueError"
    /\ files[last.trace_file] = LaneChanges
    /\ tdt.trace_file = 1
    /\ tdt.value.v > 0
    /\ tts.trace_file \notin {0, 1}
    /\ tts.value.v > 0

====
